---------------------------- MODULE Spec2Model ----------------------------
(***************************************************************************)
(* market_radar_cli: the fetch pipeline of hh_client.py (transport calls   *)
(* with retry and linear backoff, the paginating orchestrator              *)
(* fetch_all_vacancies, the text normaliser clean_html, the CSV sink) and  *)
(* the exit-code mapping of main.py, as one sequential state machine.      *)
(*                                                                         *)
(* The remote API is the environment: every HTTP attempt either answers    *)
(* 2xx with a JSON body or fails with a requests.RequestException          *)
(* (ConnectionError, Timeout, or the HTTPError raise_for_status() makes of *)
(* a 4xx/5xx answer; redirects are followed by the library).  Time is in   *)
(* tenths of a second.                                                     *)
(***************************************************************************)
EXTENDS Integers, Sequences, FiniteSets, TLC

(* ----------------------------- bounds --------------------------------- *)
MaxLimit == 2      \* --limit values tried: -1 .. MaxLimit
MaxItems == 2      \* a listing page holds 0 .. MaxItems items
MaxPages == 2      \* the remote declares at most MaxPages pages
MaxLen == 4        \* a text handed to clean_html on its own has 0 .. MaxLen characters

(* ------------------------ program constants --------------------------- *)
MAX_RETRIES == 3
RETRY_DELAY == 10          \* 1.0 s
PACE_DELAY == 5            \* time.sleep(0.5)
MAX_PER_PAGE == 100        \* min(limit, 100)
EXIT_OK == 0
EXIT_FAILURE == 1
EXIT_INTERRUPT == 130

VARIABLES
    pc,          \* position of the single thread of control
    limit,       \* args.limit
    vacancies,   \* the accumulated list of fetch_all_vacancies
    page,        \* page index of the while loop
    per_page,    \* page size sent with every listing request
    data,        \* the listing response being processed
    pagesField,  \* the "pages" field of that response, once it was read
    idx,         \* position of the for loop in data's items (1-based)
    attempt,     \* loop variable of the running transport call (0-based)
    e,           \* the exception caught by the running transport call
    url,         \* the URL of the running (or last) transport call
    log,         \* attempts and backoff sleeps of the running (or last) call
    raised,      \* the exception that left fetch_all_vacancies / save_to_csv
    exit,        \* main's return value
    file,        \* the output file
    listCalls,   \* page indices fetch_vacancies_list was called with
    detailCalls, \* ids fetch_vacancy_detail was called with
    detailOk,    \* ids whose detail call returned
    detailFailed,\* ids whose detail call raised HHAPIError
    paces,       \* the pacing sleeps done, by duration
    apiError,    \* the HHAPIError the last failed transport call raised
    result,      \* of the last transport call: running, returned or raised
    html_text,   \* the argument of a call of clean_html made on its own
    text,        \* the local variable text of that call
    cstep        \* the position of that call

\* The variables of a run of main.
runVars == <<pc, limit, vacancies, page, per_page, data, pagesField, idx, attempt, e, url,
             log, raised, exit, file, listCalls, detailCalls, detailOk,
             detailFailed, paces, apiError, result>>

\* The variables of a call of clean_html made on its own.
cleanVars == <<html_text, text, cstep>>

vars == <<runVars, cleanVars>>

(* --------------------------- JSON values ------------------------------ *)
\* An item's "id" as item.get("id") sees it: None (absent or null), the
\* empty string, or a vacancy id (a positive number stands for its string).
ID_NONE == -1
ID_EMPTY == 0

\* The id the remote gives the k-th item of page p: unique per item.
ItemIdAt(p, k) == p * MaxItems + k

Min(a, b) == IF a <= b THEN a ELSE b

\* A JSON value of the listing response's "pages" field; JUnread before
\* the field was read.
JUnread == [t |-> "unread", n |-> 0, inner |-> "none"]
JAbsent == [t |-> "absent", n |-> 0, inner |-> "none"]
JNull == [t |-> "null", n |-> 0, inner |-> "none"]
JStr == [t |-> "str", n |-> 0, inner |-> "none"]
JList == [t |-> "list", n |-> 0, inner |-> "none"]
JInt(k) == [t |-> "int", n |-> k, inner |-> "none"]
JDict(in, k) == [t |-> "dict", n |-> k, inner |-> in]

PagesShapes ==
    {JAbsent, JNull, JStr, JList}
    \cup {JInt(k) : k \in 1..MaxPages}
    \cup {JDict("absent", 0), JDict("null", 0), JDict("str", 0)}
    \cup {JDict("int", k) : k \in 1..MaxPages}

\* The JSON body of a listing response is read field by field, each field
\* once: "items" after the call returned, the "id" of an item when the for
\* loop reaches it, "pages" after the for loop.  What the remote put into a
\* field is settled at that read.

\* What item.get("id") may give for the k-th item of page p.
ItemIds(p, k) == {ID_NONE, ID_EMPTY, ItemIdAt(p, k)}

\* The JSON bodies the remote may answer a listing request with: "items" is
\* a list of n items, or the field is absent.
ListingBodies ==
    {[has_items |-> TRUE, n |-> n] : n \in 0..MaxItems}
    \cup {[has_items |-> FALSE, n |-> 0]}

NoData == [has_items |-> FALSE, n |-> 0]

(* ---------------------------- clean_html ------------------------------ *)
\* Text is a sequence of one-character strings; the markup tokens "<br>",
\* "<p>" and "</p>" stand for a line break element and for the two ends of
\* a well-formed, non-nested paragraph element.
Whitespace == {" ", "\n", "\t"}

Max(S) == CHOOSE x \in S : \A y \in S : y <= x

\* soup.get_text() after <br> became "\n" and <p>x</p> became "\nx\n".
RECURSIVE SoupText(_)
SoupText(t) ==
    IF t = <<>> THEN <<>>
    ELSE (IF Head(t) \in {"<br>", "<p>", "</p>"} THEN <<"\n">> ELSE <<Head(t)>>)
         \o SoupText(Tail(t))

\* The last index of the longest run of whitespace that follows position i.
RECURSIVE WsEnd(_, _)
WsEnd(t, i) ==
    IF i + 1 <= Len(t) /\ t[i + 1] \in Whitespace THEN WsEnd(t, i + 1) ELSE i

\* A substitution whose \s* is not greedy: a match ends at the first newline
\* after its start.
RECURSIVE ReSubNonGreedy(_, _)
ReSubNonGreedy(t, i) ==
    IF i > Len(t) THEN <<>>
    ELSE IF t[i] = "\n"
    THEN LET nl == {m \in (i + 1)..WsEnd(t, i) : t[m] = "\n"}
         IN  IF nl = {} THEN <<t[i]>> \o ReSubNonGreedy(t, i + 1)
             ELSE <<"\n", "\n">>
                  \o ReSubNonGreedy(t, (CHOOSE x \in nl : \A y \in nl : x <= y) + 1)
    ELSE <<t[i]>> \o ReSubNonGreedy(t, i + 1)

\* re.sub(r"\n\s*\n", "\n\n", t) from position i on: leftmost matches, \s*
\* greedy, so a match runs from a newline to the last newline of the
\* whitespace run after it.
RECURSIVE ReSubNewlines(_, _)
ReSubNewlines(t, i) ==
    IF i > Len(t) THEN <<>>
    ELSE IF t[i] = "\n"
    THEN LET nl == {m \in (i + 1)..WsEnd(t, i) : t[m] = "\n"}
         IN  IF nl = {} THEN <<t[i]>> \o ReSubNewlines(t, i + 1)
             ELSE <<"\n", "\n">> \o ReSubNewlines(t, Max(nl) + 1)
    ELSE <<t[i]>> \o ReSubNewlines(t, i + 1)

\* str.strip()
RECURSIVE LStrip(_)
LStrip(t) == IF t # <<>> /\ Head(t) \in Whitespace THEN LStrip(Tail(t)) ELSE t

RECURSIVE RStrip(_)
RStrip(t) ==
    IF t # <<>> /\ t[Len(t)] \in Whitespace THEN RStrip(SubSeq(t, 1, Len(t) - 1)) ELSE t

Strip(t) == RStrip(LStrip(t))

\* `if not html_text` of an argument [null |-> BOOLEAN, text |-> sequence]:
\* None and "" are falsy.
NotHtml(h) == h.null \/ h.text = <<>>

\* clean_html as a function of its argument.
clean_html(h) ==
    IF NotHtml(h) THEN <<>>
    ELSE Strip(ReSubNewlines(SoupText(h.text), 1))

(* ------------------------- the detail endpoint ------------------------ *)
\* The JSON body of GET /vacancies/{id}: "name" may be absent, "description"
\* may be null or hold markup.
DetailBody(id) ==
    [has_name |-> id % 2 = 1,
     name |-> IF id % 2 = 1 THEN "Developer" ELSE "",
     description |->
        CASE id % 3 = 0 -> [null |-> TRUE, text |-> <<>>]
          [] id % 3 = 1 -> [null |-> FALSE, text |-> <<"a", "\n", "\n", "\n", "\n", "b">>]
          [] OTHER -> [null |-> FALSE, text |-> <<"<p>", "a", "</p>", " ", "<br>", "b", "\n">>]]

\* Lines 160-164: the record built from a listing id and its detail body.
Vacancy(vacancy_id, detail) ==
    [id |-> vacancy_id,
     title |-> IF detail.has_name THEN detail.name ELSE "",
     description |-> clean_html(detail.description)]

\* The record of every id the remote lists on the pages 0 .. MaxPages,
\* worked out once.
ListedIds == {ItemIdAt(p, k) : p \in 0..MaxPages, k \in 1..MaxItems}
Records == [id \in ListedIds |-> Vacancy(id, DetailBody(id))]

\* Lines 159-164 for the item vacancy_id: the detail body of that id made
\* into its record.
VacancyOf(vacancy_id) ==
    IF vacancy_id \in ListedIds THEN Records[vacancy_id]
    ELSE Vacancy(vacancy_id, DetailBody(vacancy_id))


(* --------------------------- transport calls -------------------------- *)
NoUrl == [path |-> "", id |-> 0, page |-> 0, per_page |-> 0]

\* url and params of fetch_vacancies_list, url of fetch_vacancy_detail.
ListUrl(p, pp) == [path |-> "/vacancies", id |-> 0, page |-> p, per_page |-> pp]
DetailUrl(vacancy_id) == [path |-> "/vacancies/{id}", id |-> vacancy_id, page |-> 0, per_page |-> 0]

\* The requests.RequestException of attempt number n (1-based) on URL u.
\* Its url field is the URL its text names: raise_for_status() puts the URL
\* in the HTTPError it builds and a refused connection is reported with host
\* and path, while a read timeout is reported with the host and the timeout
\* only.
ErrorTypes == {"ConnectionError", "Timeout", "HTTPError"}
RequestException(type, n, u) ==
    [type |-> type, attempt |-> n, url |-> IF type = "Timeout" THEN NoUrl ELSE u]

NoException == [type |-> "None", attempt |-> 0, url |-> NoUrl]

\* A log entry of a transport call: an HTTP attempt or a backoff sleep.
AttemptEvent(n) == [ev |-> "attempt", n |-> n]
SleepEvent(d) == [ev |-> "sleep", n |-> d]

\* A retry loop that gives up one attempt too late.
IsLastAttemptLate(a) == a = MAX_RETRIES

\* `if attempt == MAX_RETRIES - 1` of the except clause.
IsLastAttempt(a) == a = MAX_RETRIES - 1

\* A backoff that scales with the 0-based loop variable.
BackoffDelayZeroBased(a) == RETRY_DELAY * a

\* time.sleep(RETRY_DELAY * (attempt + 1))
BackoffDelay(a) == RETRY_DELAY * (a + 1)

\* An except clause that keeps the first exception of the call.
CaughtFirst(old, new) == IF old.type = "None" THEN new ELSE old

\* `except requests.RequestException as e`: e is bound to the exception of
\* the attempt that just failed.
Caught(old, new) == new

\* HHAPIError(f"Failed to fetch vacancies list after {MAX_RETRIES} attempts: {e}")
ListingError(err) ==
    [type |-> "HHAPIError", fn |-> "fetch_vacancies_list", attempts |-> MAX_RETRIES,
     vacancy_id |-> ID_NONE, cause |-> err]

\* HHAPIError(f"Failed to fetch vacancy {vacancy_id}: {e}")
DetailError(vacancy_id, err) ==
    [type |-> "HHAPIError", fn |-> "fetch_vacancy_detail", attempts |-> 0,
     vacancy_id |-> vacancy_id, cause |-> err]

\* `page + 1 >= total_pages` on a value that is no number.
PagesTypeError ==
    [type |-> "TypeError", fn |-> "fetch_all_vacancies", attempts |-> 0,
     vacancy_id |-> ID_NONE, cause |-> NoException]

\* open() or a write of save_to_csv failing.
FileError ==
    [type |-> "OSError", fn |-> "save_to_csv", attempts |-> 0,
     vacancy_id |-> ID_NONE, cause |-> NoException]

KeyboardInterrupt ==
    [type |-> "KeyboardInterrupt", fn |-> "", attempts |-> 0,
     vacancy_id |-> ID_NONE, cause |-> NoException]

NoError ==
    [type |-> "None", fn |-> "", attempts |-> 0, vacancy_id |-> ID_NONE,
     cause |-> NoException]

(* ------------------------- orchestrator helpers ----------------------- *)
\* per_page = min(limit, 100)
PerPage(lim) == Min(lim, MAX_PER_PAGE)

\* A loop test that lets one more page in: `while len(vacancies) <= limit`.
LoopContinuesLate(vs, lim) == Len(vs) <= lim

\* `while len(vacancies) < limit`
LoopContinues(vs, lim) == Len(vs) < lim

\* A for loop that tests the limit with > instead of >=.
LimitReachedLate(vs, lim) == Len(vs) > lim

\* `if len(vacancies) >= limit: break` of the for loop
LimitReached(vs, lim) == Len(vs) >= lim

\* len(items) of items = data.get("items", [])
LenItems(d) == IF d.has_items THEN d.n ELSE 0

\* A loop without the test for an empty page.
PageIsEmptyNever(n) == FALSE

\* `if not items`
PageIsEmpty(n) == n = 0

\* A test for None alone: `if vacancy_id is None`.
FalsyNoneOnly(vacancy_id) == vacancy_id = ID_NONE

\* `if not vacancy_id`
Falsy(vacancy_id) == vacancy_id \in {ID_NONE, ID_EMPTY}

\* A loop that inserts each new record at the front of the list.
AppendVacancyFront(vs, v) == <<v>> \o vs

\* vacancies.append(vacancy)
AppendVacancy(vs, v) == Append(vs, v)

\* An except clause that appends the record although its detail is missing.
SkipVacancyAppends(vs, v) == Append(vs, v)

\* The except clause of the detail call: the item is skipped, the list kept.
SkipVacancy(vs, v) == vs

\* A for loop without the try/except around the detail call.
CatchesNothing(exc) == FALSE

\* `except HHAPIError as e` around the detail call.
Catches(exc) == exc.type = "HHAPIError"

\* total_pages = data.get("pages", 1); if it is a dict, .get("pages", 1) of it.
\* The result is a JSON value: a number, or whatever else the remote sent.
TotalPages(pg) ==
    LET tp == IF pg.t = "absent" THEN JInt(1) ELSE pg
    IN  IF tp.t = "dict"
        THEN (IF tp.inner = "absent" THEN JInt(1)
              ELSE IF tp.inner = "int" THEN JInt(tp.n)
              ELSE IF tp.inner = "null" THEN JNull
              ELSE JStr)
        ELSE tp

\* `page + 1 >= total_pages` raises TypeError unless total_pages is a number.
Comparable(tp) == tp.t = "int"

\* A loop without the page test.
NoMorePagesNever(p, tp) == FALSE

\* A page test that is off by one: `page >= total_pages`.
NoMorePagesLate(p, tp) == p >= tp.n

\* `if page + 1 >= total_pages: break`
NoMorePages(p, tp) == p + 1 >= tp.n

(* ------------------------------- main --------------------------------- *)
NoFile == [exists |-> FALSE, open |-> FALSE, header |-> FALSE, rows |-> <<>>]

\* A main without the limit check.
InvalidLimitNever(lim) == FALSE

\* `if args.limit < 1`
InvalidLimit(lim) == lim < 1

\* A main whose except clauses report success.
ExitCodeAlwaysOk(exc) == EXIT_OK

\* The except clauses of main: KeyboardInterrupt gives 130, any other
\* Exception gives 1.
ExitCode(exc) ==
    IF exc.type = "KeyboardInterrupt" THEN EXIT_INTERRUPT ELSE EXIT_FAILURE

\* The frame of fetch_all_vacancies is left, by return or by an exception:
\* data and the loop variable of the for loop are gone (and so is the
\* "pages" field, which is kept only next to the TypeError it caused).
FrameLeft == data' = NoData /\ idx' = 0

\* A transport call is left, by return or by raise: attempt and e are gone
\* (Python unbinds e at the end of the except clause).
CallLeft == attempt' = 0 /\ e' = NoException

\* An exception that no handler of fetch_all_vacancies or save_to_csv
\* catches reaches main, which logs it and returns its exit code.
Propagate(exc) ==
    /\ raised' = exc
    /\ exit' = ExitCode(exc)
    /\ pc' = "exit"
    /\ FrameLeft
    /\ CallLeft

\* An exception raised outside main's try block (lines 50-57) meets no
\* handler: it leaves main, which returns nothing.
Escape(exc) ==
    /\ raised' = exc
    /\ exit' = exit
    /\ pc' = "exit"
    /\ FrameLeft
    /\ CallLeft

\* The positions inside main's try block, lines 59-72.
InTry(p) == p \notin {"main", "exit"}

\* A main that takes every list for a non-empty one.
NoResultsNever(vs) == FALSE

\* `if not vacancies` of main
NoResults(vs) == vs = <<>>

\* The variables that record what the run did.
history == <<listCalls, detailCalls, detailOk, detailFailed, paces>>

\* The last transport call as seen from outside.
lastCall == <<url, log, apiError, result>>

\* No html_text: clean_html is not being called on its own.
NoHtml == [null |-> TRUE, text |-> <<>>]

\* The state before main has done anything, whatever the limit.
Idle ==
    /\ pc = "main"
    /\ vacancies = <<>>
    /\ page = 0
    /\ per_page = 0
    /\ data = NoData
    /\ pagesField = JUnread
    /\ idx = 0
    /\ attempt = 0
    /\ e = NoException
    /\ url = NoUrl
    /\ log = <<>>
    /\ raised = NoError
    /\ exit = -1
    /\ file = NoFile
    /\ listCalls = <<>>
    /\ detailCalls = <<>>
    /\ detailOk = {}
    /\ detailFailed = {}
    /\ paces = <<>>
    /\ apiError = NoError
    /\ result = "none"

Init ==
    /\ Idle
    /\ limit \in -1..MaxLimit
    /\ html_text = NoHtml
    /\ text = <<>>
    /\ cstep = "idle"

\* main, lines 50-64: validate the limit, then enter fetch_all_vacancies
\* (lines 136-140).
Main ==
    /\ pc = "main"
    /\ IF InvalidLimit(limit)
       THEN /\ exit' = EXIT_FAILURE
            /\ pc' = "exit"
            /\ UNCHANGED <<vacancies, page, per_page>>
       ELSE /\ vacancies' = <<>>
            /\ page' = 0
            /\ per_page' = PerPage(limit)
            /\ pc' = "while"
            /\ exit' = exit
    /\ UNCHANGED <<limit, data, pagesField, idx, attempt, e, raised, file,
                   history, lastCall>>
    /\ UNCHANGED cleanVars

(* ------------------------ fetch_all_vacancies -------------------------- *)
\* Lines 142-143: the loop test; a true test calls fetch_vacancies_list.
\* The response and the loop variable of the page before are dead from here
\* on: both are assigned again before they are read.
While ==
    /\ pc = "while"
    /\ IF LoopContinues(vacancies, limit)
       THEN /\ url' = ListUrl(page, per_page)
            /\ attempt' = 0
            /\ e' = NoException
            /\ log' = <<>>
            /\ apiError' = NoError
            /\ result' = "running"
            /\ listCalls' = Append(listCalls, page)
            /\ data' = NoData
            /\ pagesField' = JUnread
            /\ idx' = 0
            /\ pc' = "list_get"
       ELSE /\ pc' = "return"
            /\ UNCHANGED <<attempt, e, lastCall, listCalls, data, pagesField, idx>>
    /\ UNCHANGED <<limit, vacancies, page, per_page, raised, exit, file,
                   detailCalls, detailOk, detailFailed, paces>>
    /\ UNCHANGED cleanVars

\* fetch_vacancies_list, lines 54-56: the attempt succeeds and the call
\* returns the JSON body.
ListGetOk ==
    /\ pc = "list_get"
    /\ \E body \in ListingBodies : data' = body
    /\ log' = Append(log, AttemptEvent(attempt + 1))
    /\ result' = "returned"
    /\ CallLeft
    /\ pc' = "page"
    /\ UNCHANGED <<limit, pagesField, vacancies, page, per_page, idx, url, apiError, raised,
                   exit, file, history>>
    /\ UNCHANGED cleanVars

\* fetch_vacancies_list, lines 57-60: the attempt fails; the last attempt
\* raises HHAPIError, which nothing in fetch_all_vacancies catches.
ListGetFail ==
    /\ pc = "list_get"
    /\ log' = Append(log, AttemptEvent(attempt + 1))
    /\ \E type \in ErrorTypes :
          LET exc == Caught(e, RequestException(type, attempt + 1, url))
          IN  IF IsLastAttempt(attempt)
              THEN /\ apiError' = ListingError(exc)
                   /\ result' = "raised"
                   /\ Propagate(apiError')
              ELSE /\ e' = exc
                   /\ pc' = "list_sleep"
                   /\ UNCHANGED <<apiError, result, raised, exit, data, idx,
                                  attempt>>
    /\ UNCHANGED <<limit, pagesField, vacancies, page, per_page, url, file, history>>
    /\ UNCHANGED cleanVars

\* fetch_vacancies_list, line 61 and the next iteration of line 52.
ListSleep ==
    /\ pc = "list_sleep"
    /\ log' = Append(log, SleepEvent(BackoffDelay(attempt)))
    /\ attempt' = attempt + 1
    /\ pc' = "list_get"
    /\ UNCHANGED <<limit, pagesField, vacancies, page, per_page, data, idx, e, url,
                   apiError, result, raised, exit, file, history>>
    /\ UNCHANGED cleanVars

\* Lines 144-148: an empty page ends the loop.
Page ==
    /\ pc = "page"
    /\ IF PageIsEmpty(LenItems(data))
       THEN pc' = "return" /\ idx' = idx
       ELSE pc' = "for" /\ idx' = 1
    /\ UNCHANGED <<limit, pagesField, vacancies, page, per_page, data, attempt, e, raised,
                   exit, file, history, lastCall>>
    /\ UNCHANGED cleanVars

\* Lines 150-159: the head of the for loop, up to the detail call.
For ==
    /\ pc = "for"
    /\ IF idx > LenItems(data) \/ LimitReached(vacancies, limit)
       THEN /\ pc' = "pages"
            /\ UNCHANGED <<idx, attempt, e, lastCall, detailCalls>>
       ELSE \E vacancy_id \in ItemIds(page, idx) :
              IF Falsy(vacancy_id)
              THEN /\ idx' = idx + 1
                   /\ pc' = "for"
                   /\ UNCHANGED <<attempt, e, lastCall, detailCalls>>
              ELSE /\ url' = DetailUrl(vacancy_id)
                   /\ attempt' = 0
                   /\ e' = NoException
                   /\ log' = <<>>
                   /\ apiError' = NoError
                   /\ result' = "running"
                   /\ detailCalls' = Append(detailCalls, vacancy_id)
                   /\ pc' = "detail_get"
                   /\ idx' = idx
    /\ UNCHANGED <<limit, pagesField, vacancies, page, per_page, data, raised, exit, file,
                   listCalls, detailOk, detailFailed, paces>>
    /\ UNCHANGED cleanVars

\* fetch_vacancy_detail, lines 82-84, then lines 160-166: the record is
\* built and appended.
DetailGetOk ==
    /\ pc = "detail_get"
    /\ log' = Append(log, AttemptEvent(attempt + 1))
    /\ result' = "returned"
    /\ CallLeft
    /\ vacancies' = AppendVacancy(vacancies, VacancyOf(url.id))
    /\ detailOk' = detailOk \cup {url.id}
    /\ idx' = idx + 1
    /\ pc' = "for"
    /\ UNCHANGED <<limit, pagesField, page, per_page, data, url, apiError, raised, exit,
                   file, listCalls, detailCalls, detailFailed, paces>>
    /\ UNCHANGED cleanVars

\* fetch_vacancy_detail, lines 85-88: the attempt fails; the HHAPIError of
\* the last attempt is caught at lines 167-168 and the item is skipped.
DetailGetFail ==
    /\ pc = "detail_get"
    /\ log' = Append(log, AttemptEvent(attempt + 1))
    /\ \E type \in ErrorTypes :
          LET exc == Caught(e, RequestException(type, attempt + 1, url))
          IN  IF IsLastAttempt(attempt)
              THEN /\ apiError' = DetailError(url.id, exc)
                   /\ result' = "raised"
                   /\ detailFailed' = detailFailed \cup {url.id}
                   /\ IF Catches(apiError')
                      THEN /\ vacancies' =
                                SkipVacancy(vacancies, VacancyOf(url.id))
                           /\ idx' = idx + 1
                           /\ pc' = "for"
                           /\ CallLeft
                           /\ UNCHANGED <<raised, exit, data>>
                      ELSE /\ Propagate(apiError')
                           /\ UNCHANGED vacancies
              ELSE /\ e' = exc
                   /\ pc' = "detail_sleep"
                   /\ UNCHANGED <<apiError, result, vacancies, detailFailed, idx,
                                  raised, exit, data, attempt>>
    /\ UNCHANGED <<limit, pagesField, page, per_page, url, file, listCalls, detailCalls,
                   detailOk, paces>>
    /\ UNCHANGED cleanVars

\* fetch_vacancy_detail, line 89 and the next iteration of line 80.
DetailSleep ==
    /\ pc = "detail_sleep"
    /\ log' = Append(log, SleepEvent(BackoffDelay(attempt)))
    /\ attempt' = attempt + 1
    /\ pc' = "detail_get"
    /\ UNCHANGED <<limit, pagesField, vacancies, page, per_page, data, idx, e, url,
                   apiError, result, raised, exit, file, history>>
    /\ UNCHANGED cleanVars

\* Lines 172-178: the page count of the response decides whether to go on.
Pages ==
    /\ pc = "pages"
    /\ \E pg \in PagesShapes :
          LET total_pages == TotalPages(pg)
          IN  /\ pagesField' = pg
              /\ IF ~Comparable(total_pages)
                 THEN Propagate(PagesTypeError) /\ page' = page
                 ELSE IF NoMorePages(page, total_pages)
                 THEN /\ pc' = "return"
                      /\ UNCHANGED <<page, raised, exit, data, idx, attempt, e>>
                 ELSE /\ page' = page + 1
                      /\ pc' = "pace"
                      /\ UNCHANGED <<raised, exit, data, idx, attempt, e>>
    /\ UNCHANGED <<limit, vacancies, per_page, file, history, lastCall>>
    /\ UNCHANGED cleanVars

\* Line 179: time.sleep(0.5) between two pages.
Pace ==
    /\ pc = "pace"
    /\ paces' = Append(paces, PACE_DELAY)
    /\ pc' = "while"
    /\ UNCHANGED <<limit, pagesField, vacancies, page, per_page, data, idx, attempt, e,
                   raised, exit, file, listCalls, detailCalls, detailOk,
                   detailFailed, lastCall>>
    /\ UNCHANGED cleanVars

(* --------------------------- main, the sink --------------------------- *)
\* Lines 181-182 and main lines 66-70: the list is returned; an empty list
\* ends the run with 0, any other is handed to save_to_csv.
Return ==
    /\ pc = "return"
    /\ FrameLeft
    /\ pagesField' = JUnread
    /\ IF NoResults(vacancies)
       THEN exit' = EXIT_OK /\ pc' = "exit"
       ELSE exit' = exit /\ pc' = "save_open"
    /\ UNCHANGED <<limit, vacancies, page, per_page, attempt, e, raised, file,
                   history, lastCall>>
    /\ UNCHANGED cleanVars

\* save_to_csv, line 201: open(filename, "w") creates or truncates the file.
SaveOpen ==
    /\ pc = "save_open"
    /\ file' = [exists |-> TRUE, open |-> TRUE, header |-> FALSE, rows |-> <<>>]
    /\ pc' = "save_header"
    /\ UNCHANGED <<limit, pagesField, vacancies, page, per_page, data, idx, attempt, e,
                   raised, exit, history, lastCall>>
    /\ UNCHANGED cleanVars

\* save_to_csv, line 203.
SaveHeader ==
    /\ pc = "save_header"
    /\ file' = [file EXCEPT !.header = TRUE]
    /\ pc' = "save_rows"
    /\ UNCHANGED <<limit, pagesField, vacancies, page, per_page, data, idx, attempt, e,
                   raised, exit, history, lastCall>>
    /\ UNCHANGED cleanVars

\* save_to_csv, line 204: writerows writes the records one by one; after the
\* last one the with block closes the file and main returns 0 (lines 71-72).
SaveRows ==
    /\ pc = "save_rows"
    /\ IF Len(file.rows) < Len(vacancies)
       THEN /\ file' = [file EXCEPT !.rows = Append(@, vacancies[Len(@) + 1])]
            /\ UNCHANGED <<pc, exit>>
       ELSE /\ file' = [file EXCEPT !.open = FALSE]
            /\ exit' = EXIT_OK
            /\ pc' = "exit"
    /\ UNCHANGED <<limit, pagesField, vacancies, page, per_page, data, idx, attempt, e,
                   raised, history, lastCall>>
    /\ UNCHANGED cleanVars

\* open() or a write raises OSError: the with block closes the file, if it
\* was opened, and main's `except Exception` returns 1.
SaveFail ==
    /\ pc \in {"save_open", "save_header", "save_rows"}
    /\ file' = [file EXCEPT !.open = FALSE]
    /\ Propagate(FileError)
    /\ UNCHANGED <<limit, pagesField, vacancies, page, per_page, history, lastCall>>
    /\ UNCHANGED cleanVars

\* Ctrl-C at any point of the run.  Inside main's try block only main's
\* first except clause catches it (KeyboardInterrupt is no Exception); the
\* with block of save_to_csv closes the file on the way, with what was
\* written to it.  Before the try block nothing catches it.
Interrupt ==
    /\ pc # "exit"
    /\ file' = [file EXCEPT !.open = FALSE]
    /\ IF InTry(pc) THEN Propagate(KeyboardInterrupt) ELSE Escape(KeyboardInterrupt)
    /\ pagesField' = JUnread
    /\ UNCHANGED <<limit, vacancies, page, per_page, history, lastCall>>
    /\ UNCHANGED cleanVars

Next ==
    \/ Main
    \/ While
    \/ ListGetOk
    \/ ListGetFail
    \/ ListSleep
    \/ Page
    \/ For
    \/ DetailGetOk
    \/ DetailGetFail
    \/ DetailSleep
    \/ Pages
    \/ Pace
    \/ Return
    \/ SaveOpen
    \/ SaveHeader
    \/ SaveRows
    \/ SaveFail
    \/ Interrupt

Spec == Init /\ [][Next]_vars

\* The program is one sequential thread and each of its steps ends: an HTTP
\* attempt returns or fails within its timeout of 10 s, a sleep ends, a
\* write returns or fails.  So a step that can be taken is taken.
FairSpec == Spec /\ WF_vars(Next)

(* ---------------------- clean_html, called on its own ------------------ *)
\* Plain text: letters, newlines and blanks, up to MaxLen characters long.
PlainChars == {"a", "\n", " "}
PlainTexts == UNION {[1..k -> PlainChars] : k \in 0..MaxLen}

\* "a\n\n\n\nb"
FourNewlines == <<"a", "\n", "\n", "\n", "\n", "b">>

\* Descriptions with markup, as the detail endpoint sends them.
MarkupTexts == {DetailBody(id).description.text : id \in 1..3}

\* The arguments clean_html is called with: None, "" and texts.
HtmlInputs ==
    {NoHtml}
    \cup {[null |-> FALSE, text |-> t] : t \in PlainTexts \cup MarkupTexts \cup {FourNewlines}}

InitClean ==
    /\ Idle
    /\ limit = 1
    /\ html_text \in HtmlInputs
    /\ text = <<>>
    /\ cstep = "call"

\* Lines 104-105: None and "" return "".
CleanCheck ==
    /\ cstep = "call"
    /\ IF NotHtml(html_text)
       THEN text' = <<>> /\ cstep' = "done"
       ELSE text' = text /\ cstep' = "soup"
    /\ UNCHANGED <<html_text, runVars>>

\* Lines 107-115: parse, replace <br> and <p>, get_text().
CleanSoup ==
    /\ cstep = "soup"
    /\ text' = SoupText(html_text.text)
    /\ cstep' = "sub"
    /\ UNCHANGED <<html_text, runVars>>

\* Line 118.
CleanSub ==
    /\ cstep = "sub"
    /\ text' = ReSubNewlines(text, 1)
    /\ cstep' = "strip"
    /\ UNCHANGED <<html_text, runVars>>

\* Lines 119-121: strip and return.
CleanStrip ==
    /\ cstep = "strip"
    /\ text' = Strip(text)
    /\ cstep' = "done"
    /\ UNCHANGED <<html_text, runVars>>

NextClean ==
    \/ CleanCheck
    \/ CleanSoup
    \/ CleanSub
    \/ CleanStrip

SpecClean == InitClean /\ [][NextClean]_vars

(* ------------------------------ claims -------------------------------- *)
Ids(vs) == [i \in 1..Len(vs) |-> vs[i].id]

Count(sq, x) == Cardinality({i \in 1..Len(sq) : sq[i] = x})

\* C1: for every limit >= 1 and whatever the remote answers (pages longer
\* than the requested page size included), the accumulated list never holds
\* more than limit records, so neither does the returned list nor the file.
C1_LimitNeverExceeded ==
    limit >= 1 => Len(vacancies) <= limit /\ Len(file.rows) <= limit

\* The limit is reached on a page that holds more items than were asked for.
C1_Witness ==
    /\ pc = "return"
    /\ Len(vacancies) = limit
    /\ LenItems(data) > per_page
    /\ idx <= LenItems(data)

\* C2: every record of the list carries the id of an item whose detail call
\* returned in this run; an item whose detail call failed on all retries is
\* absent from the list and was asked for exactly once.
C2_OnlySucceededDetails ==
    /\ \A i \in 1..Len(vacancies) : vacancies[i].id \in detailOk
    /\ \A id \in detailFailed :
          /\ \A i \in 1..Len(vacancies) : vacancies[i].id # id
          /\ Count(detailCalls, id) = 1

\* A run that ended well although one item's detail call failed.
C2_Witness ==
    /\ pc = "exit"
    /\ exit = EXIT_OK
    /\ detailFailed # {}
    /\ vacancies # <<>>
    /\ Len(file.rows) = Len(vacancies)

\* C3: a detail call that fails on its last retry raises nothing out of
\* fetch_all_vacancies, leaves the accumulated records as they are and moves
\* the for loop to the next item; no exception that ends a run is ever that
\* of a detail call.
C3_DetailFailureNotFatal ==
    /\ [](raised.fn # "fetch_vacancy_detail")
    /\ [][detailFailed' # detailFailed =>
            /\ raised' = NoError
            /\ vacancies' = vacancies
            /\ pc' = "for"
            /\ idx' = idx + 1
            /\ page' = page]_vars

\* A run saved records fetched after a failed item: a later item of the same
\* page and an item of a later page.
C3_Witness ==
    /\ pc = "exit"
    /\ exit = EXIT_OK
    /\ ItemIdAt(0, 1) \in detailFailed
    /\ Ids(vacancies) = <<ItemIdAt(0, 2), ItemIdAt(1, 1)>>
    /\ file.rows = vacancies

\* C4: when the listing call of any page fails on its last retry, the
\* HHAPIError leaves fetch_all_vacancies: main returns 1, no file exists, the
\* records of earlier pages go nowhere and no further request is made.
C4_ListingFailureAborts ==
    /\ [](apiError.fn = "fetch_vacancies_list" =>
            /\ raised = apiError
            /\ pc = "exit"
            /\ exit = EXIT_FAILURE
            /\ file = NoFile)
    /\ [][(/\ pc = "list_get"
           /\ attempt = MAX_RETRIES - 1
           /\ log' # log
           /\ result' # "returned") =>
            apiError'.fn = "fetch_vacancies_list"]_vars
    /\ [][apiError.fn = "fetch_vacancies_list" =>
            UNCHANGED <<listCalls, detailCalls, log, file, vacancies>>]_vars

\* The listing call of the second page failed with records already held.
C4_Witness ==
    /\ raised.fn = "fetch_vacancies_list"
    /\ page = 1
    /\ vacancies # <<>>
    /\ exit = EXIT_FAILURE

AttemptsMade == Cardinality({i \in 1..Len(log) : log[i].ev = "attempt"})

\* C5: a transport call makes at most 3 HTTP attempts; an attempt that
\* succeeds ends the call at once, a failed attempt of any kind is followed
\* by a sleep and the next attempt while fewer than 3 were made, and the call
\* raises exactly when the third attempt failed.
C5_AtMostThreeAttempts ==
    /\ [](attempt < MAX_RETRIES /\ AttemptsMade <= MAX_RETRIES)
    /\ [](result = "raised" =>
            AttemptsMade = MAX_RETRIES /\ apiError.cause.attempt = MAX_RETRIES)
    /\ [][(pc \in {"list_get", "detail_get"} /\ log' # log) =>
            IF e'.attempt # attempt + 1 /\ apiError'.cause.attempt # attempt + 1
            THEN result' = "returned" /\ pc' \in {"page", "for"}
            ELSE IF attempt < MAX_RETRIES - 1
            THEN /\ result' = "running"
                 /\ e'.type \in ErrorTypes
                 /\ pc' = (IF pc = "list_get" THEN "list_sleep" ELSE "detail_sleep")
            ELSE result' = "raised" /\ apiError'.cause.type \in ErrorTypes]_vars
    /\ [][(pc \in {"list_sleep", "detail_sleep"} /\ log' # log) =>
            /\ attempt' = attempt + 1
            /\ pc' = (IF pc = "list_sleep" THEN "list_get" ELSE "detail_get")]_vars

\* A detail call returned on its second attempt.
C5_Witness ==
    /\ result = "returned"
    /\ url.path = "/vacancies/{id}"
    /\ AttemptsMade = 2
    /\ url.id \in detailOk

\* C6: the sleep after failed attempt n lasts RETRY_DELAY * n and stands
\* between that attempt and attempt n + 1; a call that fails twice and then
\* succeeds returns after exactly the sleeps 1 x and 2 x RETRY_DELAY.
C6_LinearBackoff ==
    /\ \A i \in 1..Len(log) :
          log[i].ev = "sleep" =>
             /\ i > 1
             /\ log[i - 1].ev = "attempt"
             /\ log[i].n = RETRY_DELAY * log[i - 1].n
             /\ i < Len(log) => log[i + 1] = AttemptEvent(log[i - 1].n + 1)
    /\ (result = "returned" /\ AttemptsMade = MAX_RETRIES) =>
          log = <<AttemptEvent(1), SleepEvent(RETRY_DELAY), AttemptEvent(2),
                  SleepEvent(2 * RETRY_DELAY), AttemptEvent(3)>>

\* A listing call returned on its third attempt.
C6_Witness ==
    /\ result = "returned"
    /\ url.path = "/vacancies"
    /\ AttemptsMade = MAX_RETRIES
    /\ pc = "page"

AfterReturn == {"return", "save_open", "save_header", "save_rows"}

\* C8: a listing page without items, at any page index, ends the loop: the
\* list is returned as it stood before that page, without an error and
\* without another listing or detail request.
C8_EmptyPageEndsRun ==
    /\ [][(pc = "page" /\ LenItems(data) = 0 /\ raised' = NoError) =>
            /\ pc' = "return"
            /\ UNCHANGED <<vacancies, listCalls, detailCalls, log>>]_vars
    /\ [][(pc \in AfterReturn) =>
            /\ UNCHANGED <<vacancies, listCalls, detailCalls, log>>
            /\ (raised'.type \in {"None", "OSError", "KeyboardInterrupt"})]_vars

\* The second page came back empty with records held and the limit not met.
C8_Witness ==
    /\ pc = "return"
    /\ page = 1
    /\ LenItems(data) = 0
    /\ vacancies # <<>>
    /\ Len(vacancies) < limit
    /\ raised = NoError

\* A "pages" field that is neither an integer nor an object with an integer
\* "pages".
Malformed(pg) ==
    pg.t # "unread" /\ ~(pg.t = "int" \/ (pg.t = "dict" /\ pg.inner = "int"))

\* C9: whatever malformed "pages" field the response of the page being
\* processed has, the run takes the page count to be 1: it does not crash on
\* the page test and does not go on to another page.
C9_MalformedPagesDefaultToOne ==
    Malformed(pagesField) => raised.type # "TypeError" /\ pc # "pace"

\* C10: the list holds the records in the order their detail calls
\* succeeded, which is ascending page index and item position; a record once
\* appended stays at its place unchanged; one page with ids 1, 2, limit 2
\* and both detail calls succeeding gives exactly the records 1, 2.
C10_PaginationOrder ==
    /\ [](Ids(vacancies) = SelectSeq(detailCalls, LAMBDA id : id \in detailOk))
    /\ [](\A i, j \in 1..Len(vacancies) : i < j => vacancies[i].id < vacancies[j].id)
    /\ [][/\ Len(vacancies') >= Len(vacancies)
          /\ SubSeq(vacancies', 1, Len(vacancies)) = vacancies]_vars
    /\ []((/\ pc = "return"
           /\ limit = 2
           /\ listCalls = <<0>>
           /\ LenItems(data) = 2
           /\ detailOk = {1, 2}) => Ids(vacancies) = <<1, 2>>)

\* The scenario: limit 2, one page with ids 1, 2, both saved in that order.
C10_Witness ==
    /\ pc = "return"
    /\ limit = 2
    /\ listCalls = <<0>>
    /\ LenItems(data) = 2
    /\ detailCalls = <<1, 2>>
    /\ Ids(vacancies) = <<1, 2>>

\* C11: the output file is created only after fetch_all_vacancies has
\* returned, and a run that was interrupted, at whatever point, leaves no
\* file that holds only part of the records.
C11_NoPartialFile ==
    /\ file.exists => pc \in {"save_header", "save_rows", "exit"}
    /\ (pc = "exit" /\ raised.type = "KeyboardInterrupt" /\ file.exists) =>
          file.header /\ file.rows = vacancies

\* A run that came to its end without an exception: the limit was valid and
\* either nothing was found and no file written, or all records were saved.
EndedWell ==
    \/ vacancies = <<>> /\ file = NoFile
    \/ /\ vacancies # <<>>
       /\ file = [exists |-> TRUE, open |-> FALSE, header |-> TRUE, rows |-> vacancies]

\* C12 as stated: every run ends with main returning a code: 0 after saving
\* or finding nothing (then without a file), 130 after a user interruption,
\* 1 after any other failure; no exception leaves main.
C12_EveryOutcomeHasACode ==
    pc = "exit" =>
        /\ exit \in {EXIT_OK, EXIT_FAILURE, EXIT_INTERRUPT}
        /\ raised.type = "KeyboardInterrupt" => exit = EXIT_INTERRUPT
        /\ raised.type \notin {"None", "KeyboardInterrupt"} => exit = EXIT_FAILURE
        /\ (raised = NoError /\ limit >= 1) => exit = EXIT_OK /\ EndedWell

\* C12, amended: once main is inside its try block every outcome has one
\* code: 0 after saving or finding nothing (then without a file), 130 after
\* an interruption, 1 after a listing failure, a failure while writing or any
\* other Exception, and nothing raised there leaves main.  An interruption
\* that arrives before the try block is entered is not caught: it leaves
\* main, which returns no code, before any request was made.
C12_OutcomesInsideTry ==
    /\ [](pc = "exit" =>
            /\ raised.type \notin {"None", "KeyboardInterrupt"} => exit = EXIT_FAILURE
            /\ (raised = NoError /\ limit >= 1) => exit = EXIT_OK /\ EndedWell
            /\ raised.type = "KeyboardInterrupt" =>
                  \/ exit = EXIT_INTERRUPT
                  \/ exit = -1 /\ listCalls = <<>> /\ per_page = 0 /\ file = NoFile
            /\ exit \in {EXIT_OK, EXIT_FAILURE, EXIT_INTERRUPT} \/ raised = KeyboardInterrupt)
    /\ [][(InTry(pc) /\ pc' = "exit") =>
            /\ exit' \in {EXIT_OK, EXIT_FAILURE, EXIT_INTERRUPT}
            /\ exit' = EXIT_INTERRUPT <=> raised' = KeyboardInterrupt
            /\ exit' = EXIT_FAILURE <=> raised'.type \in {"HHAPIError", "TypeError", "OSError"}
            /\ exit' = EXIT_OK <=> raised' = NoError]_vars
    /\ [][(~InTry(pc) /\ raised' = KeyboardInterrupt) => exit' = -1 /\ pc' = "exit"]_vars

\* The user interrupted a detail fetch with records already held: 130 and
\* no file.
C12_Witness ==
    /\ pc = "exit"
    /\ exit = EXIT_INTERRUPT
    /\ raised = KeyboardInterrupt
    /\ url.path = "/vacancies/{id}"
    /\ result = "running"
    /\ vacancies # <<>>
    /\ file = NoFile

\* C13: main rejects a limit below 1 at once: it returns 1, and a run with
\* such a limit makes no listing request and no detail request, sleeps for
\* nothing and writes no file.
C13_InvalidLimitRejected ==
    /\ [](limit < 1 =>
            /\ listCalls = <<>>
            /\ detailCalls = <<>>
            /\ log = <<>>
            /\ paces = <<>>
            /\ url = NoUrl
            /\ file = NoFile
            /\ pc \in {"main", "exit"})
    /\ [][(pc = "main" /\ limit < 1 /\ raised' = NoError) =>
            exit' = EXIT_FAILURE /\ pc' = "exit"]_vars

\* main has returned 1 for a negative limit.
C13_Witness ==
    /\ limit < 0
    /\ pc = "exit"
    /\ exit = EXIT_FAILURE
    /\ raised = NoError
    /\ listCalls = <<>>
    /\ file = NoFile

\* The characters of t that are no whitespace, in order.
Words(t) == SelectSeq(t, LAMBDA c : c \notin Whitespace)

\* The position of the k-th character of t that is no whitespace.
KthWord(t, k) ==
    CHOOSE i \in 1..Len(t) :
        /\ t[i] \notin Whitespace
        /\ Cardinality({j \in 1..i : t[j] \notin Whitespace}) = k

\* The number of newlines between the k-th and the next such character.
Gap(t, k) == Cardinality({m \in KthWord(t, k)..KthWord(t, k + 1) : t[m] = "\n"})

IsPlain(t) == \A i \in 1..Len(t) : t[i] \notin {"<br>", "<p>", "</p>"}

\* C14: None and "" give ""; in the text clean_html returns no two newlines
\* are separated by whitespace only unless they are adjacent, so it never
\* holds three newlines in a row; for plain text the other characters stay
\* as they are and every run of whitespace between two of them that held two
\* or more newlines holds exactly two, one that held one or none holds as
\* many; "a\n\n\n\nb" gives "a\n\nb".
C14_NewlinesCollapsed ==
    cstep = "done" =>
        /\ NotHtml(html_text) => text = <<>>
        /\ text = clean_html(html_text)
        /\ \A i, j \in 1..Len(text) :
              (/\ i < j
               /\ text[i] = "\n"
               /\ text[j] = "\n"
               /\ \A m \in i..j : text[m] \in Whitespace) => j = i + 1
        /\ \A i \in 1..(Len(text) - 2) :
              ~(text[i] = "\n" /\ text[i + 1] = "\n" /\ text[i + 2] = "\n")
        /\ (text # <<>>) => text[1] \notin Whitespace /\ text[Len(text)] \notin Whitespace
        /\ (~html_text.null /\ IsPlain(html_text.text)) =>
              /\ Words(text) = Words(html_text.text)
              /\ \A k \in 1..(Len(Words(text)) - 1) :
                    Gap(text, k) = Min(Gap(html_text.text, k), 2)
        /\ html_text.text = FourNewlines => text = <<"a", "\n", "\n", "b">>

\* clean_html has returned "a\n\nb" for "a\n\n\n\nb".
C14_Witness ==
    /\ cstep = "done"
    /\ html_text = [null |-> FALSE, text |-> FourNewlines]
    /\ text = <<"a", "\n", "\n", "b">>

\* The total page count a response declares: the number in "pages", plain or
\* nested; 1 when there is none.
DeclaredPages(pg) ==
    IF pg.t = "int" \/ (pg.t = "dict" /\ pg.inner = "int") THEN pg.n ELSE 1

\* C15: listing pages are requested with the indices 0, 1, 2, ... in order;
\* once the items of page p are processed, page p + 1 is requested exactly
\* when p + 1 is below the total page count the response of page p declares
\* and fewer than limit records are held (a user interruption apart); a
\* first page of fewer items than the limit, all fetched, with a total page
\* count of 1 ends the run with those records after one listing request.
C15_PagesOrLimitExhausted ==
    /\ [](listCalls = [i \in 1..Len(listCalls) |-> i - 1])
    /\ [](pc \in {"while", "pace"} => page = Len(listCalls))
    /\ [][(pc = "pages" /\ raised'.type # "KeyboardInterrupt") =>
            /\ pc' = "pace" <=> page + 1 < DeclaredPages(pagesField')
            /\ pc' = "pace" => page' = page + 1
            /\ UNCHANGED <<listCalls, vacancies>>]_vars
    /\ [][(pc = "pace" /\ raised'.type # "KeyboardInterrupt") =>
            pc' = "while" /\ UNCHANGED <<listCalls, vacancies, page>>]_vars
    /\ [][(pc = "while" /\ raised'.type # "KeyboardInterrupt") =>
            IF Len(vacancies) < limit
            THEN listCalls' = Append(listCalls, page) /\ pc' = "list_get"
            ELSE listCalls' = listCalls /\ pc' = "return"]_vars
    /\ [][listCalls' # listCalls => pc = "while"]_vars
    /\ []((/\ pc = "return"
           /\ listCalls = <<0>>
           /\ pagesField = JInt(1)
           /\ LenItems(data) < limit
           /\ detailFailed = {}
           /\ Cardinality(detailOk) = LenItems(data)) =>
            Len(vacancies) = LenItems(data))

\* The scenario in small: limit 2, one page of one item, a total page count
\* of 1: the run stops with one record after one listing request.
C15_Witness ==
    /\ pc = "return"
    /\ limit = 2
    /\ listCalls = <<0>>
    /\ pagesField = JInt(1)
    /\ LenItems(data) = 1
    /\ detailOk = {ItemIdAt(0, 1)}
    /\ Len(vacancies) = 1

\* C16: in a run with a valid limit, detail calls are made for at most limit
\* items and at most ceil(limit / per_page) listing pages are fetched, where
\* per_page = min(limit, 100).
C16_LimitBoundsPagesAndItems ==
    limit >= 1 =>
        /\ Len(detailCalls) <= limit
        /\ Len(listCalls) <= (limit + PerPage(limit) - 1) \div PerPage(limit)

\* C17: every pacing pause stands between the processing of one listing
\* page and the listing request of the next, so a run of
\* fetch_all_vacancies that returns has paused once less than it has
\* requested listing pages.
C17_PacingOnlyBetweenPages ==
    pc = "return" => Len(paces) = Len(listCalls) - 1

\* The ids an item without id shows: None (absent or null) and "".
NoId == {ID_NONE, ID_EMPTY}

\* C18: no detail call is ever made and no record ever kept for an item
\* without id; the step of the for loop that meets such an item (it makes
\* no detail call although the page has items left and the limit is not
\* reached) raises nothing, changes neither the list nor the requests made
\* and leaves the for loop at the next item.
C18_NoIdSkippedSilently ==
    /\ [](/\ \A i \in 1..Len(detailCalls) : detailCalls[i] \notin NoId
          /\ \A i \in 1..Len(vacancies) : vacancies[i].id \notin NoId
          /\ (detailOk \cup detailFailed) \cap NoId = {}
          /\ pc \in {"detail_get", "detail_sleep"} => url.id \notin NoId)
    /\ [][(/\ pc = "for"
           /\ idx <= LenItems(data)
           /\ ~LimitReached(vacancies, limit)
           /\ detailCalls' = detailCalls
           /\ raised'.type # "KeyboardInterrupt") =>
            /\ pc' = "for"
            /\ idx' = idx + 1
            /\ raised' = NoError
            /\ UNCHANGED <<vacancies, listCalls, lastCall, detailOk, detailFailed,
                           paces, exit, file, page, data>>]_vars

\* The first item of the first page had no id: no detail call was made for
\* it, and the second item was fetched and kept.
C18_Witness ==
    /\ page = 0
    /\ pc = "for"
    /\ idx = 3
    /\ detailCalls = <<ItemIdAt(0, 2)>>
    /\ Ids(vacancies) = <<ItemIdAt(0, 2)>>
    /\ detailFailed = {}
    /\ raised = NoError

\* C19: every detail call that returns appends exactly one record, the one
\* of its id, so the list is as long as the number of detail calls that
\* returned; once the list holds limit records no detail call and no listing
\* call is made, nor any HTTP attempt.
C19_NoWastedFetch ==
    /\ [](Cardinality(detailOk) = Len(vacancies))
    /\ [][detailOk' # detailOk =>
            /\ Len(vacancies') = Len(vacancies) + 1
            /\ vacancies'[Len(vacancies')].id = url.id
            /\ detailOk' = detailOk \cup {url.id}
            /\ Len(vacancies') <= limit]_vars
    /\ [][Len(vacancies') = Len(vacancies) + 1 => detailOk' # detailOk]_vars
    /\ [][(limit >= 1 /\ Len(vacancies) >= limit) =>
            UNCHANGED <<detailCalls, listCalls, log, url, vacancies>>]_vars

\* The limit was reached on the first page although the remote declared a
\* second: the loop has ended without asking for it.
C19_Witness ==
    /\ pc = "return"
    /\ limit = 2
    /\ Len(vacancies) = limit
    /\ Cardinality(detailOk) = 2
    /\ listCalls = <<0>>
    /\ page = 1
    /\ pagesField = JInt(2)

SleepsMade == Cardinality({i \in 1..Len(log) : log[i].ev = "sleep"})

\* C20: with listing pages of at most MaxItems items and declared page
\* counts of at most MaxPages, fetch_all_vacancies, once entered, comes to
\* its return or to an exception whatever the detail calls do, and asks for
\* at most MaxPages listing pages; every transport call comes to its end,
\* after at most 3 attempts and 2 backoff sleeps.
C20_Terminates ==
    /\ (pc = "while") ~> (pc \in {"return", "exit"})
    /\ (result = "running") ~> (result \in {"returned", "raised"} \/ pc = "exit")
    /\ [](Len(listCalls) <= MaxPages)
    /\ [](AttemptsMade <= MAX_RETRIES /\ SleepsMade <= MAX_RETRIES - 1)
    /\ [](result \in {"returned", "raised"} =>
            AttemptsMade \in 1..MAX_RETRIES /\ SleepsMade = AttemptsMade - 1)

\* fetch_all_vacancies is about to return after as many listing requests as
\* pages were declared, with detail calls that returned and that failed.
C20_Witness ==
    /\ pc = "return"
    /\ Len(listCalls) = MaxPages
    /\ detailOk # {}
    /\ detailFailed # {}
    /\ Len(vacancies) < limit

=============================================================================
